---- MODULE Spec2Model ----
(***************************************************************************)
(* Model of the three scripts of the counterfactual prompts dataset:       *)
(*   scripts/1_analyze_raw_dataset.py      statistics and pair count check *)
(*   scripts/2_create_formatted_dataset.py pairing of the rows             *)
(*   scripts/3_example_usage.py            call_llm and its retry loop     *)
(* Strings are sequences of character codes, compared as Python compares   *)
(* str values (code point by code point, a proper prefix first).  Every    *)
(* cell of the CSV holds a string: missing cells (NaN) are not modelled.   *)
(***************************************************************************)
EXTENDS Integers, Sequences, FiniteSets, TLC

VARIABLES
    pc,          \* position of the running script in its main()
    columns,     \* the header of the CSV file
    csv,         \* the data rows of the CSV file, in file order
    df,          \* the DataFrame returned by load_csv / load_dataset
    pair_index,  \* build_pairs: the df["pair_index"] column, one value per row of df
    pairs,       \* build_pairs: the list it returns
    jsonl,       \* save_jsonl: the records written, one per line
    PAIR_SIZE,       \* CONFIG of 1_analyze_raw_dataset.py
    EXPECTED_PAIRS,  \* CONFIG of 1_analyze_raw_dataset.py
    simple_stats,    \* main of 1_analyze_raw_dataset.py: compute_simple_stats(df)
    pair_check,      \* main of 1_analyze_raw_dataset.py: compute_pair_count_check(df)
    summary_json,    \* the document written to SUMMARY_JSON
    client,          \* main of 3_example_usage.py: get_gemini_client()
    todo,            \* main of 3_example_usage.py: the sentences still to be sent
    answers,         \* main of 3_example_usage.py: what call_llm returned, in order
    attempt,         \* call_llm: attempt
    last_exception,  \* call_llm: last_exception
    calls            \* the outcomes of generate_content in the latest call_llm

varsLoad == <<columns, csv, df>>

varsPairs == <<pair_index, pairs, jsonl>>

varsConfig == <<PAIR_SIZE, EXPECTED_PAIRS>>

varsStats == <<simple_stats, pair_check, summary_json>>

varsLLM == <<client, todo, answers, attempt, last_exception, calls>>

vars == <<pc, varsLoad, varsPairs, varsConfig, varsStats, varsLLM>>

-----------------------------------------------------------------------------
(* Bounds and input universes *)

MaxRows == 3

MaxPrompts == 2

BiasTypes == { <<120>>, <<120, 124, 124, 121>> }        \* "x", "x||y"
Intents   == { <<122>>, <<121, 124, 124, 122>> }        \* "z", "y||z"
Topics    == { <<116>> }                                \* "t"
Groups    == { <<65>>, <<66>> }                         \* "A", "B"
Sentences == { <<112>>, <<113>> }                       \* "p", "q"

Rows == [topic : Topics, intent : Intents, group : Groups,
         sentence : Sentences, bias_type : BiasTypes]

\* what generate_content may answer, and what it may raise
Responses == {"text1", "text2"}

Errors == {"429", "timeout"}

SeqsUpTo(S, n) == UNION { [1..k -> S] : k \in 0..n }

REQUIRED_COLS == {"topic", "intent", "group", "sentence", "bias_type"}

Headers == { REQUIRED_COLS, REQUIRED_COLS \ {"group"} }

\* (PAIR_SIZE, EXPECTED_PAIRS) as the CONFIG section may set them; <<2, 20>> is
\* what the repository ships
Configs == { <<2, 20>>, <<2, 1>>, <<1, 2>>, <<0, 20>> }

-----------------------------------------------------------------------------
(* Python str and int helpers *)

\* s < t for two str values
RECURSIVE LexLess(_, _)
LexLess(s, t) ==
    IF t = <<>> THEN FALSE
    ELSE IF s = <<>> THEN TRUE
    ELSE IF Head(s) # Head(t) THEN Head(s) < Head(t)
    ELSE LexLess(Tail(s), Tail(t))

\* str(n) for an int n >= 0
RECURSIVE IntToStr(_)
IntToStr(n) ==
    IF n < 10 THEN <<48 + n>>
    ELSE IntToStr(n \div 10) \o <<48 + (n % 10)>>

\* the separator of the f-string that builds a pair id: "||"
SEP == <<124, 124>>

-----------------------------------------------------------------------------
(* load_csv / load_dataset *)

\* DataFrame.drop_duplicates(): the first occurrence of every row, in order
RECURSIVE DropDuplicates(_)
DropDuplicates(s) ==
    IF s = <<>> THEN <<>>
    ELSE LET init == DropDuplicates(SubSeq(s, 1, Len(s) - 1))
             last == s[Len(s)]
         IN  IF \E i \in 1..Len(init) : init[i] = last THEN init
             ELSE Append(init, last)

-----------------------------------------------------------------------------
(* build_pairs *)

Key4(row) == <<row.bias_type, row.intent, row.topic, row.group>>

Key3(row) == <<row.bias_type, row.intent, row.topic>>

\* groupby(...).cumcount(): a running counter per group key, scanning in row order
RECURSIVE CumCountScan(_, _, _, _)
CumCountScan(d, i, seen, out) ==
    IF i > Len(d) THEN out
    ELSE LET k == Key4(d[i])
         IN  CumCountScan(d, i + 1, [seen EXCEPT ![k] = @ + 1], Append(out, seen[k]))

CumCountKey3(d) ==
    LET RECURSIVE Scan(_, _, _)
        Scan(i, seen, out) ==
            IF i > Len(d) THEN out
            ELSE LET k == Key3(d[i])
                 IN  Scan(i + 1, [seen EXCEPT ![k] = @ + 1], Append(out, seen[k]))
    IN  Scan(1, [k \in { Key3(d[i]) : i \in 1..Len(d) } |-> 0], <<>>)

CumCount(d) ==
    CumCountScan(d, 1, [k \in { Key4(d[i]) : i \in 1..Len(d) } |-> 0], <<>>)

PairKeyNoIndex(d, idx, i) == <<d[i].bias_type, d[i].intent, d[i].topic, 0>>

\* the key of row i in the second groupby
PairKey(d, idx, i) == <<d[i].bias_type, d[i].intent, d[i].topic, idx[i]>>

\* the order in which groupby (sort=True) yields its keys
PairKeyLess(a, b) ==
    IF a[1] # b[1] THEN LexLess(a[1], b[1])
    ELSE IF a[2] # b[2] THEN LexLess(a[2], b[2])
    ELSE IF a[3] # b[3] THEN LexLess(a[3], b[3])
    ELSE a[4] < b[4]

RECURSIVE SortedKeys(_)
SortedKeys(S) ==
    IF S = {} THEN <<>>
    ELSE LET least == CHOOSE k \in S : \A j \in S \ {k} : PairKeyLess(k, j)
         IN  <<least>> \o SortedKeys(S \ {least})

GroupKeys(d, idx) == SortedKeys({ PairKey(d, idx, i) : i \in 1..Len(d) })

\* the sub-frame of one key: its rows, in the order of the frame
RECURSIVE SelectRows(_, _, _, _)
SelectRows(d, idx, key, i) ==
    IF i > Len(d) THEN <<>>
    ELSE IF PairKey(d, idx, i) = key THEN <<d[i]>> \o SelectRows(d, idx, key, i + 1)
    ELSE SelectRows(d, idx, key, i + 1)

SubFrameFirstOnly(d, idx, key) ==
    LET all == SelectRows(d, idx, key, 1)
    IN  IF all = <<>> THEN <<>> ELSE <<Head(all)>>

SubFrame(d, idx, key) == SelectRows(d, idx, key, 1)

\* sub.sort_values("group"): ascending by group.  No two rows of a sub-frame
\* share a group, so the order of ties (quicksort is not stable) never matters.
RECURSIVE InsertByGroup(_, _)
InsertByGroup(sorted, row) ==
    IF sorted = <<>> THEN <<row>>
    ELSE IF LexLess(row.group, Head(sorted).group) THEN <<row>> \o sorted
    ELSE <<Head(sorted)>> \o InsertByGroup(Tail(sorted), row)

RECURSIVE InsertionSort(_)
InsertionSort(sub) ==
    IF sub = <<>> THEN <<>>
    ELSE InsertByGroup(InsertionSort(SubSeq(sub, 1, Len(sub) - 1)), sub[Len(sub)])

Unsorted(sub) == sub

SortedDescending(sub) ==
    LET asc == InsertionSort(sub)
    IN  [i \in 1..Len(asc) |-> asc[Len(asc) + 1 - i]]

SortValuesGroup(sub) == InsertionSort(sub)

PairId(bias_type, intent, topic, pair_idx) ==
    bias_type \o SEP \o intent \o SEP \o topic \o SEP \o IntToStr(pair_idx)

Prompts(sub) == [i \in 1..Len(sub) |-> [group |-> sub[i].group, sentence |-> sub[i].sentence]]

PairRecord(d, idx, key) ==
    LET sub     == SortValuesGroup(SubFrame(d, idx, key))
        prompts == Prompts(sub)
    IN  [id         |-> PairId(key[1], key[2], key[3], key[4]),
         bias_type  |-> key[1],
         intent     |-> key[2],
         topic      |-> key[3],
         pair_index |-> key[4],
         groups     |-> [i \in 1..Len(prompts) |-> prompts[i].group],
         prompts    |-> prompts]

PairsOf(d, idx) ==
    LET keys == GroupKeys(d, idx)
    IN  [n \in 1..Len(keys) |-> PairRecord(d, idx, keys[n])]

build_pairs(d) == PairsOf(d, CumCount(d))

-----------------------------------------------------------------------------
(* scripts/2_create_formatted_dataset.py: main() *)

InitLoad ==
    /\ pc = "start"
    /\ columns \in Headers
    /\ csv \in SeqsUpTo(Rows, MaxRows)
    /\ df = <<>>

IdlePairs ==
    /\ pair_index = <<>>
    /\ pairs = <<>>
    /\ jsonl = <<>>

IdleStats ==
    /\ simple_stats = <<>>
    /\ pair_check = <<>>
    /\ summary_json = <<>>

IdleLLM ==
    /\ client = "None"
    /\ todo = <<>>
    /\ answers = <<>>
    /\ attempt = 0
    /\ last_exception = "None"
    /\ calls = <<>>

InitPairs ==
    /\ InitLoad
    /\ IdlePairs
    /\ PAIR_SIZE = 2
    /\ EXPECTED_PAIRS = 20
    /\ IdleStats
    /\ IdleLLM

MissingCols == REQUIRED_COLS \ columns

LoadCsv ==
    /\ pc = "start"
    /\ MissingCols = {}
    /\ df' = DropDuplicates(csv)
    /\ pc' = "loaded"
    /\ UNCHANGED <<columns, csv, varsPairs, varsConfig, varsStats, varsLLM>>

LoadCsvMissing ==
    /\ pc = "start"
    /\ MissingCols # {}
    /\ pc' = "ValueError"
    /\ UNCHANGED <<varsLoad, varsPairs, varsConfig, varsStats, varsLLM>>

BuildPairs ==
    /\ pc = "loaded"
    /\ pair_index' = CumCount(df)
    /\ pairs' = build_pairs(df)
    /\ pc' = "built"
    /\ UNCHANGED <<varsLoad, jsonl, varsConfig, varsStats, varsLLM>>

SaveJsonl ==
    /\ pc = "built"
    /\ jsonl' = pairs
    /\ pc' = "saved"
    /\ UNCHANGED <<varsLoad, pair_index, pairs, varsConfig, varsStats, varsLLM>>

NextPairs == LoadCsv \/ LoadCsvMissing \/ BuildPairs \/ SaveJsonl

SpecPairs == InitPairs /\ [][NextPairs]_vars

\* build_pairs has returned
Built == pc = "built"

-----------------------------------------------------------------------------
(* Properties of build_pairs *)

RECURSIVE SumPrompts(_)
SumPrompts(ps) ==
    IF ps = <<>> THEN 0 ELSE Len(Head(ps).prompts) + SumPrompts(Tail(ps))

RecordKey3(r) == <<r.bias_type, r.intent, r.topic>>

RecordKey4(r) == <<r.bias_type, r.intent, r.topic, r.pair_index>>

\* the places (record, position) where row i of df is found in pairs
PlacesOf(i) ==
    { x \in (1..Len(pairs)) \X (1..MaxRows + 1) :
        /\ x[2] <= Len(pairs[x[1]].prompts)
        /\ RecordKey3(pairs[x[1]]) = Key3(df[i])
        /\ pairs[x[1]].prompts[x[2]] = [group |-> df[i].group, sentence |-> df[i].sentence] }

RowsOfKey4(k) == { i \in 1..Len(df) : Key4(df[i]) = k }

Perm(p) == [i \in 1..Len(df) |-> df[p[i]]]

\* C3 as stated: every permutation of df gives the very same PairRecords.
C3_InputOrderIndependent ==
    Built => \A p \in Permutations(1..Len(df)) : build_pairs(Perm(p)) = pairs

KeepsOrderWithinKey4(p) ==
    \A i, j \in 1..Len(df) :
        (i < j /\ Key4(df[p[i]]) = Key4(df[p[j]])) => p[i] < p[j]

SameShape(q, r) ==
    /\ q.id = r.id
    /\ RecordKey4(q) = RecordKey4(r)
    /\ q.groups = r.groups
    /\ Len(q.prompts) = Len(r.prompts)
    /\ \A i \in 1..Len(q.prompts) : q.prompts[i].group = r.prompts[i].group

\* C3 (amended): every permutation of df gives the same keys and, per key, the same
\* groups sequence and the same group at each position of prompts; the sentences
\* are the same too when the permutation keeps the relative order of the rows of
\* every (bias_type, intent, topic, group).
C3_GroupsOrderIndependent ==
    Built =>
        \A p \in Permutations(1..Len(df)) :
            LET q == build_pairs(Perm(p))
            IN  /\ Len(q) = Len(pairs)
                /\ \A n \in 1..Len(q) : SameShape(q[n], pairs[n])
                /\ KeepsOrderWithinKey4(p) => q = pairs

\* two rows of one group and a row of another: a reordering that moves groups
\* apart and swaps the two rows of the repeated group
C3_Witness ==
    /\ Built
    /\ Len(df) = 3
    /\ \E n \in 1..Len(pairs) : Len(pairs[n].groups) = 2
    /\ \E p \in Permutations(1..Len(df)) :
          /\ ~KeepsOrderWithinKey4(p)
          /\ build_pairs(Perm(p)) # pairs

CountOf(k3, g) ==
    Cardinality({ i \in 1..Len(df) : Key3(df[i]) = k3 /\ df[i].group = g })

MaxCount(k3) ==
    CHOOSE m \in 0..Len(df) :
        /\ \A g \in Groups : CountOf(k3, g) <= m
        /\ \E g \in Groups : CountOf(k3, g) = m

RecordsOf(k3) == { n \in 1..Len(pairs) : RecordKey3(pairs[n]) = k3 }

C5_GroupsStrictlyAscending ==
    Built =>
        \A n \in 1..Len(pairs) :
            LET r == pairs[n]
            IN  /\ Len(r.prompts) = Len(r.groups)
                /\ Len(r.groups) >= 1
                /\ \A i \in 1..Len(r.groups) : r.prompts[i].group = r.groups[i]
                /\ \A i \in 1..(Len(r.groups) - 1) : LexLess(r.groups[i], r.groups[i + 1])

\* a record of two groups whose rows come in descending group order in df
C5_Witness ==
    /\ Built
    /\ \E n \in 1..Len(pairs) :
          /\ Len(pairs[n].groups) = 2
          /\ \E i, j \in 1..Len(df) :
                /\ i < j
                /\ PairKey(df, pair_index, i) = RecordKey4(pairs[n])
                /\ PairKey(df, pair_index, j) = RecordKey4(pairs[n])
                /\ LexLess(df[j].group, df[i].group)

\* C6: two PairRecords that differ in (bias_type, intent, topic, pair_index) have
\* different id strings.
C6_IdUnique ==
    Built =>
        \A m, n \in 1..Len(pairs) :
            RecordKey4(pairs[m]) # RecordKey4(pairs[n]) => pairs[m].id # pairs[n].id

-----------------------------------------------------------------------------
(* scripts/1_analyze_raw_dataset.py: compute_simple_stats *)

\* the values of a column
ValuesOf(d, col) == { d[i][col] : i \in 1..Len(d) }

\* df[col].nunique()
NUnique(d, col) == Cardinality(ValuesOf(d, col))

\* df[col].value_counts().to_dict()
ValueCounts(d, col) ==
    [v \in ValuesOf(d, col) |-> Cardinality({ i \in 1..Len(d) : d[i][col] = v })]

CrosstabObservedOnly(d) ==
    [b \in ValuesOf(d, "bias_type") |->
        [c \in { d[i].intent : i \in { j \in 1..Len(d) : d[j].bias_type = b } } |->
            Cardinality({ i \in 1..Len(d) : d[i].bias_type = b /\ d[i].intent = c })]]

\* pd.crosstab(df["bias_type"], df["intent"]) read cell by cell: the index holds
\* the bias types of the frame, the columns its intents, every cell a count
Crosstab(d) ==
    [b \in ValuesOf(d, "bias_type") |->
        [c \in ValuesOf(d, "intent") |->
            Cardinality({ i \in 1..Len(d) : d[i].bias_type = b /\ d[i].intent = c })]]

\* df.groupby("bias_type")["group"].nunique()
GroupsPerBias(d) ==
    [b \in ValuesOf(d, "bias_type") |->
        Cardinality({ d[i].group : i \in { j \in 1..Len(d) : d[j].bias_type = b } })]

compute_simple_stats(d) ==
    [total_rows             |-> Len(d),
     n_unique_topics        |-> NUnique(d, "topic"),
     n_unique_intents       |-> NUnique(d, "intent"),
     n_unique_groups        |-> NUnique(d, "group"),
     n_unique_bias_types    |-> NUnique(d, "bias_type"),
     counts_per_bias_type   |-> ValueCounts(d, "bias_type"),
     counts_per_intent      |-> ValueCounts(d, "intent"),
     bias_type_by_intent    |-> Crosstab(d),
     n_groups_per_bias_type |-> GroupsPerBias(d)]

-----------------------------------------------------------------------------
(* scripts/1_analyze_raw_dataset.py: compute_pair_count_check *)

\* A float of a pandas column: <<v>> for the number v, <<>> for NaN.
Num(v) == <<v>>

NaN == <<>>

\* Series % m on an integer column: NaN where the divisor is zero
SeriesMod(n, m) == IF m = 0 THEN NaN ELSE Num(n % m)

\* Series / m: the quotient n/m kept as a fraction; inf where the divisor is zero
SeriesTrueDiv(n, m) == IF m = 0 THEN "inf" ELSE [num |-> n, den |-> m]

\* df.groupby(key_cols).agg(n_rows, n_groups), with the n_pairs_float column
Grouped(d, pair_size) ==
    [k \in { Key3(d[i]) : i \in 1..Len(d) } |->
        LET members == { i \in 1..Len(d) : Key3(d[i]) = k }
        IN  [n_rows        |-> Cardinality(members),
             n_groups      |-> Cardinality({ d[i].group : i \in members }),
             n_pairs_float |-> SeriesTrueDiv(Cardinality(members), pair_size)]]

\* Counter(grouped["n_rows"])
RowCountDistribution(grouped) ==
    [n \in { grouped[k].n_rows : k \in DOMAIN grouped } |->
        Cardinality({ k \in DOMAIN grouped : grouped[k].n_rows = n })]

OddRows(grouped, pair_size) ==
    { k \in DOMAIN grouped : SeriesMod(grouped[k].n_rows, pair_size) # Num(0) }

Divisible(grouped, pair_size) ==
    { k \in DOMAIN grouped : SeriesMod(grouped[k].n_rows, pair_size) = Num(0) }

PerfectAnyDivisible(grouped, pair_size, expected_rows) == Divisible(grouped, pair_size)

Perfect(grouped, pair_size, expected_rows) ==
    { k \in Divisible(grouped, pair_size) : grouped[k].n_rows = expected_rows }

compute_pair_count_check(d, pair_size, expected_pairs) ==
    LET grouped       == Grouped(d, pair_size)
        expected_rows == expected_pairs * pair_size
    IN  [total_combinations             |-> Cardinality(DOMAIN grouped),
         expected_pairs_per_combination |-> expected_pairs,
         expected_rows_per_combination  |-> expected_pairs * pair_size,
         row_count_distribution         |-> RowCountDistribution(grouped),
         n_perfect_combinations         |->
             Cardinality(Perfect(grouped, pair_size, expected_rows)),
         n_odd_row_combinations         |-> Cardinality(OddRows(grouped, pair_size))]

-----------------------------------------------------------------------------
(* scripts/1_analyze_raw_dataset.py: main() *)

InitStats ==
    /\ InitLoad
    /\ IdlePairs
    /\ \E c \in Configs : PAIR_SIZE = c[1] /\ EXPECTED_PAIRS = c[2]
    /\ IdleStats
    /\ IdleLLM

ComputeSimpleStats ==
    /\ pc = "loaded"
    /\ simple_stats' = compute_simple_stats(df)
    /\ pc' = "stats"
    /\ UNCHANGED <<varsLoad, varsPairs, varsConfig, pair_check, summary_json, varsLLM>>

ComputePairCountCheck ==
    /\ pc = "stats"
    /\ pair_check' = compute_pair_count_check(df, PAIR_SIZE, EXPECTED_PAIRS)
    /\ pc' = "checked"
    /\ UNCHANGED <<varsLoad, varsPairs, varsConfig, simple_stats, summary_json, varsLLM>>

WriteSummary ==
    /\ pc = "checked"
    /\ summary_json' = [simple_stats |-> simple_stats]
    /\ pc' = "written"
    /\ UNCHANGED <<varsLoad, varsPairs, varsConfig, simple_stats, pair_check, varsLLM>>

NextStats ==
    LoadCsv \/ LoadCsvMissing \/ ComputeSimpleStats \/ ComputePairCountCheck \/ WriteSummary

SpecStats == InitStats /\ [][NextStats]_vars

\* compute_simple_stats has returned
HasStats == pc \in {"stats", "checked", "written"}

\* compute_pair_count_check has returned
Checked == pc \in {"checked", "written"}

-----------------------------------------------------------------------------
(* Properties of the statistics *)

Combinations == { Key3(df[i]) : i \in 1..Len(df) }

NRows(k3) == Cardinality({ i \in 1..Len(df) : Key3(df[i]) = k3 })

RECURSIVE SumValues(_, _)
SumValues(f, S) ==
    IF S = {} THEN 0
    ELSE LET x == CHOOSE y \in S : TRUE
         IN  f[x] + SumValues(f, S \ {x})

\* C7: for a positive PAIR_SIZE, n_odd_row_combinations counts the combinations with
\* n_rows % PAIR_SIZE # 0, n_perfect_combinations those with n_rows % PAIR_SIZE = 0
\* and n_rows = EXPECTED_PAIRS * PAIR_SIZE; the two are disjoint, so their sum is at
\* most total_combinations, and row_count_distribution counts every combination once.
C7_PairCountClassification ==
    (Checked /\ PAIR_SIZE >= 1) =>
        LET odd     == { k \in Combinations : NRows(k) % PAIR_SIZE # 0 }
            perfect == { k \in Combinations :
                            /\ NRows(k) % PAIR_SIZE = 0
                            /\ NRows(k) = EXPECTED_PAIRS * PAIR_SIZE }
            dist    == pair_check.row_count_distribution
        IN  /\ pair_check.total_combinations = Cardinality(Combinations)
            /\ pair_check.n_odd_row_combinations = Cardinality(odd)
            /\ pair_check.n_perfect_combinations = Cardinality(perfect)
            /\ odd \cap perfect = {}
            /\ pair_check.n_perfect_combinations + pair_check.n_odd_row_combinations
                  <= pair_check.total_combinations
            /\ SumValues(dist, DOMAIN dist) = pair_check.total_combinations
            /\ \A k \in Combinations :
                  /\ NRows(k) \in DOMAIN dist
                  /\ dist[NRows(k)] = Cardinality({ j \in Combinations : NRows(j) = NRows(k) })

\* one perfect, one odd combination
C7_Witness ==
    /\ Checked
    /\ PAIR_SIZE = 2
    /\ pair_check.total_combinations = 2
    /\ pair_check.n_perfect_combinations = 1
    /\ pair_check.n_odd_row_combinations = 1

\* a divisible combination that is not perfect
C7_WitnessDivisibleNotPerfect ==
    /\ Checked
    /\ PAIR_SIZE = 2
    /\ pair_check.total_combinations = 1
    /\ pair_check.n_perfect_combinations = 0
    /\ pair_check.n_odd_row_combinations = 0

RowsWith(b, c) == { i \in 1..Len(df) : df[i].bias_type = b /\ df[i].intent = c }

HasCell(b, c) ==
    /\ b \in DOMAIN simple_stats.bias_type_by_intent
    /\ c \in DOMAIN simple_stats.bias_type_by_intent[b]

\* C8 as stated: a cell (bias_type, intent) is in bias_type_by_intent exactly when
\* some row has both values, and then holds the number of such rows.
C8_SparseCrosstab ==
    HasStats =>
        \A b \in BiasTypes, c \in Intents :
            /\ HasCell(b, c) <=> RowsWith(b, c) # {}
            /\ HasCell(b, c) =>
                  simple_stats.bias_type_by_intent[b][c] = Cardinality(RowsWith(b, c))

\* C8 (amended): a cell (bias_type, intent) is in bias_type_by_intent exactly when
\* some row has that bias_type and some row (maybe another) has that intent; it
\* holds the number of rows with both, 0 when no row has both.
C8_DenseCrosstab ==
    HasStats =>
        \A b \in BiasTypes, c \in Intents :
            /\ HasCell(b, c) <=>
                  /\ \E i \in 1..Len(df) : df[i].bias_type = b
                  /\ \E i \in 1..Len(df) : df[i].intent = c
            /\ HasCell(b, c) =>
                  simple_stats.bias_type_by_intent[b][c] = Cardinality(RowsWith(b, c))

\* a zero cell next to a cell of two rows
C8_Witness ==
    /\ HasStats
    /\ \E b \in BiasTypes, c \in Intents :
          /\ HasCell(b, c)
          /\ simple_stats.bias_type_by_intent[b][c] = 0
    /\ \E b \in BiasTypes, c \in Intents :
          /\ HasCell(b, c)
          /\ simple_stats.bias_type_by_intent[b][c] = 2

\* C9: with a PAIR_SIZE that is not a positive integer the run ends in an error
\* before any row is processed: compute_pair_count_check never returns a summary.
C9_FailFastOnBadConfig ==
    PAIR_SIZE < 1 => ~Checked

-----------------------------------------------------------------------------
(* scripts/3_example_usage.py: call_llm, called by main() for every prompt *)

MAX_RETRIES == 5

\* "(LLM disabled or not configured.)"
Disabled == [kind |-> "disabled"]

\* getattr(response, "text", str(response))
Text(t) == [kind |-> "text", text |-> t]

\* f"(Error querying Gemini after {MAX_RETRIES} retries: {last_exception})"
Fallback(e) == [kind |-> "error", retries |-> MAX_RETRIES, exception |-> e]

InitLLM ==
    /\ pc = "main_loop"
    /\ columns = REQUIRED_COLS
    /\ csv = <<>>
    /\ df = <<>>
    /\ IdlePairs
    /\ PAIR_SIZE = 2
    /\ EXPECTED_PAIRS = 20
    /\ IdleStats
    /\ client \in {"None", "client"}
    /\ todo \in SeqsUpTo(Sentences, MaxPrompts)
    /\ answers = <<>>
    /\ attempt = 0
    /\ last_exception = "None"
    /\ calls = <<>>

varsOther == <<varsLoad, varsPairs, varsConfig, varsStats>>

\* call_llm with client None: returns at once
CallLLMDisabled ==
    /\ pc = "main_loop"
    /\ todo # <<>>
    /\ client = "None"
    /\ answers' = Append(answers, Disabled)
    /\ todo' = Tail(todo)
    /\ calls' = <<>>
    /\ UNCHANGED <<pc, client, attempt, last_exception, varsOther>>

\* call_llm with a client: the wait, then attempt = 0 and last_exception = None
CallLLMEnter ==
    /\ pc = "main_loop"
    /\ todo # <<>>
    /\ client # "None"
    /\ attempt' = 0
    /\ last_exception' = "None"
    /\ calls' = <<>>
    /\ pc' = "retry_loop"
    /\ UNCHANGED <<client, todo, answers, varsOther>>

WhileOffByOne(a) == a <= MAX_RETRIES

\* while attempt < MAX_RETRIES
While(a) == a < MAX_RETRIES

\* generate_content answers: call_llm returns the text
GenerateContentReturns ==
    /\ pc = "retry_loop"
    /\ While(attempt)
    /\ \E t \in Responses :
          /\ calls' = Append(calls, t)
          /\ answers' = Append(answers, Text(t))
    /\ todo' = Tail(todo)
    /\ pc' = "main_loop"
    /\ UNCHANGED <<client, attempt, last_exception, varsOther>>

\* generate_content raises: the except branch
GenerateContentRaises ==
    /\ pc = "retry_loop"
    /\ While(attempt)
    /\ \E e \in Errors :
          /\ calls' = Append(calls, e)
          /\ last_exception' = e
    /\ attempt' = attempt + 1
    /\ UNCHANGED <<pc, client, todo, answers, varsOther>>

\* the loop is left: call_llm returns the fallback string
ReturnFallback ==
    /\ pc = "retry_loop"
    /\ ~While(attempt)
    /\ answers' = Append(answers, Fallback(last_exception))
    /\ todo' = Tail(todo)
    /\ pc' = "main_loop"
    /\ UNCHANGED <<client, attempt, last_exception, calls, varsOther>>

\* main: every prompt answered, the results are saved
SaveResults ==
    /\ pc = "main_loop"
    /\ todo = <<>>
    /\ pc' = "results_saved"
    /\ UNCHANGED <<varsLLM, varsOther>>

NextLLM ==
    \/ CallLLMDisabled
    \/ CallLLMEnter
    \/ GenerateContentReturns
    \/ GenerateContentRaises
    \/ ReturnFallback
    \/ SaveResults

SpecLLM == InitLLM /\ [][NextLLM]_vars

\* the script is one sequential process: whatever step is possible is taken, and
\* every call of generate_content ends by returning or raising
FairSpecLLM == SpecLLM /\ WF_vars(NextLLM)

-----------------------------------------------------------------------------
(* Properties of call_llm *)

\* call_llm has returned to main (at least once)
Returned == pc \in {"main_loop", "results_saved"} /\ answers # <<>>

LastAnswer == answers[Len(answers)]

CallLLMInvariant ==
    /\ Len(calls) <= MAX_RETRIES
    /\ \A i \in 1..(Len(calls) - 1) : calls[i] \in Errors
    /\ pc = "retry_loop" =>
          /\ attempt = Len(calls)
          /\ \A i \in 1..Len(calls) : calls[i] \in Errors
          /\ attempt < MAX_RETRIES => ENABLED GenerateContentReturns
          /\ attempt >= MAX_RETRIES =>
                /\ ENABLED ReturnFallback
                /\ ~ENABLED GenerateContentReturns
                /\ ~ENABLED GenerateContentRaises
    /\ (Returned /\ client # "None") =>
          /\ calls # <<>>
          /\ LastAnswer.kind \in {"text", "error"}
          /\ LastAnswer.kind = "text" =>
                /\ calls[Len(calls)] \in Responses
                /\ LastAnswer.text = calls[Len(calls)]
          /\ LastAnswer.kind = "error" =>
                /\ Len(calls) = MAX_RETRIES
                /\ \A i \in 1..Len(calls) : calls[i] \in Errors
                /\ LastAnswer.exception = calls[MAX_RETRIES]
    /\ client = "None" =>
          /\ calls = <<>>
          /\ pc # "retry_loop"
          /\ \A i \in 1..Len(answers) : answers[i] = Disabled

\* C10: one call_llm makes at most MAX_RETRIES calls of generate_content and none
\* after a successful one; it returns the text of the first successful call, or,
\* after MAX_RETRIES failed calls, the fallback string with the last exception;
\* with client None it makes no call and returns the disabled placeholder; and
\* every call_llm that entered its loop returns to main.
C10_BoundedRetry ==
    /\ []CallLLMInvariant
    /\ (pc = "retry_loop") ~> (pc = "main_loop")

\* a call that failed MAX_RETRIES times, followed by one that succeeded on its
\* third attempt
C10_Witness ==
    /\ Returned
    /\ Len(answers) = 2
    /\ answers[1].kind = "error"
    /\ answers[2].kind = "text"
    /\ Len(calls) = 3

====
